---- MODULE Spec2Model ----
(***************************************************************************)
(* Request routing and dispatch core of the image server                  *)
(* (src/server/imgapisrv.go).                                             *)
(*                                                                         *)
(* One request is handled at a time by doHandleImages.  The handler is    *)
(* modelled in the order of its code: the Basic-auth scan, the query      *)
(* parse, the branch on the method and then one of the four per-method    *)
(* routines.  The credentials, the method and whether the raw query       *)
(* parses are drawn when the request arrives; the path, the result of     *)
(* os.Stat and the values of the action parameter are drawn at the step   *)
(* where the code reads them, and are kept in the state from then on.     *)
(*                                                                         *)
(* Strings the code takes apart (paths) are sequences of one-character    *)
(* strings; strings the code only compares (method, user name, password,  *)
(* action) are TLA+ strings.                                               *)
(***************************************************************************)
EXTENDS Integers, Sequences, FiniteSets

VARIABLES userdb, pc, cred, authenticated, queryBad, method, route, path,
          split, statRes, action, writes, calls

vars == <<userdb, pc, cred, authenticated, queryBad, method, route, path,
          split, statRes, action, writes, calls>>

----------------------------------------------------------------------------
(* Bounds of the model *)

MaxUsers == 2

MaxValues == 2

MaxSegs == 2

MaxTail == 3

----------------------------------------------------------------------------
(* Input domains *)

SeqsUpTo(S, n) == UNION {[1..k -> S] : k \in 0..n}

Names == {"a", "b"}

Passwords == {"1", "2"}

UserEntries == {[Name |-> "a", Password |-> "1"],
                [Name |-> "a", Password |-> "2"],
                [Name |-> "b", Password |-> "1"]}

Userdbs == SeqsUpTo(UserEntries, MaxUsers)

NoCredentials == [ok |-> FALSE, username |-> "", password |-> ""]

Credentials == {NoCredentials} \cup
               {[ok |-> TRUE, username |-> u, password |-> p] :
                    u \in Names, p \in Passwords}

Methods == {"", "GET", "DELETE", "POST", "PUT", "PATCH"}

ActionValues == {"activate", "update", "disable", "enable", "export",
                 "copy-remote", "import-remote", "import", "channel-add",
                 "bogus", "Activate"}

\* params["action"]: absent (empty) or the values in order of appearance
ActionParams == SeqsUpTo(ActionValues, MaxValues)

StatResults == {"ok", "notexist", "othererr"}

Datadir == <<"d">>

Images == <<"/", "i", "m", "a", "g", "e", "s">>

Segments == {<<"u">>, <<"f", "i", "l", "e">>, <<"i", "c", "o", "n">>,
             <<"a", "c", "l">>}

RECURSIVE JoinSegs(_)
JoinSegs(ss) == IF ss = <<>> THEN <<>>
                ELSE <<"/">> \o Head(ss) \o JoinSegs(Tail(ss))

\* r.URL.Path of a request the mux hands to doHandleImages under the
\* patterns "/images" and "/images/": the mux redirects a path with an empty
\* segment to its cleaned form, which keeps a trailing slash.
Paths == {Images \o JoinSegs(ss) \o t :
              ss \in SeqsUpTo(Segments, MaxSegs), t \in {<<>>, <<"/">>}}

\* Arguments of splitImagesUrl taken on its own: any string
Urls == {pre \o t :
            pre \in {<<>>, Images, Images \o <<"/">>, <<"/", "x">> \o Images \o <<"/">>},
            t \in SeqsUpTo({"/", "u", "v"}, MaxTail)}

----------------------------------------------------------------------------
(* Response envelope *)

Body(code, message) == <<[code |-> code, message |-> message]>>

\* A reply as it leaves the server: the status, the headers that were set
\* when the status was written, and the body (empty, or the one JSON map).
\* sendResponse sets Server before w.WriteHeader and Content-Type after it,
\* so only Server is sent.
sendResponse(code, content) ==
    [status |-> code, headers |-> {"Server"}, body |-> content]

\* w.WriteHeader called on a writer no header was set on
WriteHeader(code) == [status |-> code, headers |-> {}, body |-> <<>>]

Call(name, arg) == [name |-> name, arg |-> arg]

----------------------------------------------------------------------------
(* URL resource parser *)

\* strings.Index: 0-based position of the first occurrence, -1 when absent
Index(s, sub) ==
    LET hits == {i \in 0..(Len(s) - Len(sub)) :
                    SubSeq(s, i + 1, i + Len(sub)) = sub}
    IN  IF hits = {} THEN -1
        ELSE CHOOSE i \in hits : \A j \in hits : i <= j

splitImagesUrl(url) ==
    IF Index(url, Images \o <<"/">>) # 0
    THEN [uuid |-> <<>>, file |-> <<>>, err |-> TRUE]
    ELSE LET rest == SubSeq(url, 9, Len(url))
         IN  IF Len(rest) = 0
             THEN [uuid |-> <<>>, file |-> <<>>, err |-> TRUE]
             ELSE LET index == Index(rest, <<"/">>)
                  IN  IF index # -1
                      THEN [uuid |-> SubSeq(rest, 1, index),
                            file |-> SubSeq(rest, index + 1, Len(rest)),
                            err  |-> FALSE]
                      ELSE [uuid |-> rest, file |-> <<>>, err |-> FALSE]

\* splitImagesUrl was not called
NoSplit == <<>>

Filename(uuid) == Datadir \o <<"/">> \o uuid

----------------------------------------------------------------------------
(* Authenticator: the scan of configuration.Userdb *)

\* Variant: an entry with the name and another password is passed over
RECURSIVE ScanUserdb_Skip(_, _, _, _, _)
ScanUserdb_Skip(db, i, found, username, password) ==
    IF i > Len(db)
    THEN IF found THEN "authenticated" ELSE "AccountDoesNotExist"
    ELSE IF username # db[i].Name \/ password # db[i].Password
         THEN ScanUserdb_Skip(db, i + 1, found, username, password)
         ELSE ScanUserdb_Skip(db, i + 1, TRUE, username, password)

RECURSIVE ScanUserdb(_, _, _, _, _)
ScanUserdb(db, i, found, username, password) ==
    IF i > Len(db)
    THEN IF found THEN "authenticated" ELSE "AccountDoesNotExist"
    ELSE IF username # db[i].Name
         THEN ScanUserdb(db, i + 1, found, username, password)
         ELSE IF password # db[i].Password
              THEN "UnauthorizedError"
              ELSE ScanUserdb(db, i + 1, TRUE, username, password)

----------------------------------------------------------------------------
(* State machine *)

Init ==
    /\ userdb \in Userdbs
    /\ pc = "idle"
    /\ cred = NoCredentials
    /\ authenticated = FALSE
    /\ queryBad = FALSE
    /\ method = ""
    /\ route = "none"
    /\ path = <<>>
    /\ split = NoSplit
    /\ statRes = "none"
    /\ action = <<>>
    /\ writes = <<>>
    /\ calls = <<>>

\* The mux hands a request to doHandleImages: the request's credentials,
\* method and raw query, and a response writer nothing was written to.
Receive ==
    /\ pc = "idle"
    /\ pc' = "auth"
    /\ cred' \in Credentials
    /\ method' \in Methods
    /\ queryBad' \in BOOLEAN
    /\ UNCHANGED <<userdb, authenticated, route, path, split, statRes, action,
                   writes, calls>>

\* doHandleImages returns; the server is ready for the next request.
Return ==
    /\ pc = "done"
    /\ pc' = "idle"
    /\ cred' = NoCredentials
    /\ method' = ""
    /\ queryBad' = FALSE
    /\ authenticated' = FALSE
    /\ route' = "none"
    /\ path' = <<>>
    /\ split' = NoSplit
    /\ statRes' = "none"
    /\ action' = <<>>
    /\ writes' = <<>>
    /\ calls' = <<>>
    /\ UNCHANGED userdb

\* doHandleImages, lines 303-338
Authenticate ==
    /\ pc = "auth"
    /\ IF cred.ok
       THEN LET res == ScanUserdb(userdb, 1, FALSE, cred.username, cred.password)
            IN  CASE res = "UnauthorizedError" ->
                       /\ writes' = Append(writes,
                              sendResponse("UnauthorizedError",
                                  Body("UnauthorizedError",
                                       <<"Invalid username/password combination">>)))
                       /\ authenticated' = FALSE
                       /\ pc' = "done"
                  [] res = "AccountDoesNotExist" ->
                       /\ writes' = Append(writes,
                              sendResponse("AccountDoesNotExist",
                                  Body("AccountDoesNotExist",
                                       <<"User ", cred.username, " does not exist">>)))
                       /\ authenticated' = FALSE
                       /\ pc' = "done"
                  [] OTHER ->
                       /\ authenticated' = TRUE
                       /\ pc' = "query"
                       /\ UNCHANGED writes
       ELSE /\ authenticated' = FALSE
            /\ pc' = "query"
            /\ UNCHANGED writes
    /\ UNCHANGED <<userdb, cred, queryBad, method, route, path, split, statRes,
                   action, calls>>

\* doHandleImages, lines 340-348: url.ParseQuery(r.URL.RawQuery)
ParseQuery ==
    /\ pc = "query"
    /\ IF queryBad
       THEN /\ writes' = Append(writes,
                  sendResponse("InternalError",
                      Body("InternalError", <<"Failed to parse query">>)))
            /\ pc' = "done"
       ELSE /\ pc' = "method"
            /\ UNCHANGED writes
    /\ UNCHANGED <<userdb, cred, authenticated, queryBad, method, route, path,
                   split, statRes, action, calls>>

\* Variant: PUT is routed without looking at authenticated
MethodBranch_PutOpen(m, auth) ==
    IF m = "" \/ m = "GET" THEN "get"
    ELSE IF m = "DELETE" THEN (IF auth THEN "delete" ELSE "deny")
    ELSE IF m = "POST" THEN (IF auth THEN "post" ELSE "deny")
    ELSE IF m = "PUT" THEN "put"
    ELSE "done"

\* doHandleImages, lines 349-369: where method m goes; "deny" is the bare
\* w.WriteHeader(UnauthorizedError), "done" the end of the if-chain.
MethodBranch(m, auth) ==
    IF m = "" \/ m = "GET" THEN "get"
    ELSE IF m = "DELETE" THEN (IF auth THEN "delete" ELSE "deny")
    ELSE IF m = "POST" THEN (IF auth THEN "post" ELSE "deny")
    ELSE IF m = "PUT" THEN (IF auth THEN "put" ELSE "deny")
    ELSE "done"

DispatchMethod ==
    /\ pc = "method"
    /\ LET b == MethodBranch(method, authenticated)
       IN  IF b = "deny"
           THEN /\ writes' = Append(writes, WriteHeader("UnauthorizedError"))
                /\ pc' = "done"
           ELSE /\ pc' = b
                /\ UNCHANGED writes
    /\ UNCHANGED <<userdb, cred, authenticated, queryBad, method, route, path,
                   split, statRes, action, calls>>

\* What one per-method routine did: the responses it wrote, the operation
\* handlers it called, the result of splitImagesUrl, the result of os.Stat
\* ("none" when it was not called), params["action"] when it was read and
\* whether it was read.
Out(w, c, s, st, a) ==
    [w |-> w, c |-> c, split |-> s, stat |-> st, act |-> a, readsAction |-> FALSE]

Icon == <<"/", "i", "c", "o", "n">>

File == <<"/", "f", "i", "l", "e">>

Acl == <<"/", "a", "c", "l">>

\* doHandleGetImages, lines 92-112: the routing on the subresource tag
GetByTag(s, st) ==
    LET filename == Filename(s.uuid)
    IN  IF Len(s.file) = 0
        THEN Out(<<>>, <<Call("GetImage", filename)>>, <<s>>, st, <<>>)
        ELSE IF s.file = Icon
        THEN Out(<<>>, <<Call("GetImageIcon", filename)>>, <<s>>, st, <<>>)
        ELSE IF s.file = File
        THEN Out(<<>>, <<Call("GetImageFile", filename)>>, <<s>>, st, <<>>)
        ELSE Out(<<sendResponse("ResourceNotFound",
                     Body("ResourceNotFound",
                          <<"Requested resource does not exist">>))>>,
                 <<>>, <<s>>, st, <<>>)

\* Variant: the path is taken as missing when os.Stat fails
GetImages_StatFails(p, st) ==
    IF p = Images
    THEN Out(<<>>, <<Call("ListImages", Datadir)>>, NoSplit, "none", <<>>)
    ELSE LET s == splitImagesUrl(p)
         IN  IF s.err
             THEN Out(<<sendResponse("InvalidParameter",
                          Body("InvalidParameter", <<"Invalid url">>))>>,
                      <<>>, <<s>>, "none", <<>>)
             ELSE IF st # "ok"
             THEN Out(<<sendResponse("ResourceNotFound",
                          Body("ResourceNotFound",
                               <<"Failed to locate ">> \o Filename(s.uuid)
                                   \o <<": stat error">>))>>,
                      <<>>, <<s>>, st, <<>>)
             ELSE GetByTag(s, st)

GetImages(p, st) ==
    IF p = Images
    THEN Out(<<>>, <<Call("ListImages", Datadir)>>, NoSplit, "none", <<>>)
    ELSE LET s == splitImagesUrl(p)
         IN  IF s.err
             THEN Out(<<sendResponse("InvalidParameter",
                          Body("InvalidParameter", <<"Invalid url">>))>>,
                      <<>>, <<s>>, "none", <<>>)
             ELSE IF st = "ok"
             THEN Out(<<sendResponse("ResourceNotFound",
                          Body("ResourceNotFound",
                               <<"Failed to locate ">> \o Filename(s.uuid)
                                   \o <<": <nil>">>))>>,
                      <<>>, <<s>>, st, <<>>)
             ELSE GetByTag(s, st)

DeleteImages(p) ==
    LET s == splitImagesUrl(p)
        fpath == Filename(s.uuid)
    IN  IF s.err
        THEN Out(<<sendResponse("InvalidParameter",
                     Body("InvalidParameter", <<"Failed to decode URL">>))>>,
                 <<>>, <<s>>, "none", <<>>)
        ELSE IF Len(s.file) > 0
        THEN IF s.file = Icon
             THEN Out(<<>>, <<Call("DeleteImageIcon", fpath)>>, <<s>>, "none", <<>>)
             ELSE Out(<<sendResponse("ResourceNotFound",
                          Body("ResourceNotFound", <<"Resource does not exists">>))>>,
                      <<>>, <<s>>, "none", <<>>)
        ELSE Out(<<>>, <<Call("DeleteImage", fpath)>>, <<s>>, "none", <<>>)

\* doHandlePostImages, lines 222-255: the switch on action[0].  A Go case
\* with an empty body does nothing and does not fall through.
ResolveValue(a, fpath) ==
    CASE a = "activate" -> [w |-> <<>>, c |-> <<Call("ActivateImage", fpath)>>]
      [] a = "update" -> [w |-> <<>>, c |-> <<Call("UpdateImage", fpath)>>]
      [] a = "disable" -> [w |-> <<>>, c |-> <<Call("DisableImage", fpath)>>]
      [] a = "enable" -> [w |-> <<>>, c |-> <<Call("EnableImage", fpath)>>]
      [] a = "export" -> [w |-> <<>>, c |-> <<>>]
      [] a = "copy-remote" -> [w |-> <<>>, c |-> <<>>]
      [] a = "import-remote" -> [w |-> <<>>, c |-> <<>>]
      [] a = "import" -> [w |-> <<>>, c |-> <<>>]
      [] a = "channel-add" ->
           [w |-> <<sendResponse("InsufficientServerVersion",
                       Body("InsufficientServerVersion",
                            <<"action=\"", a, "\" is not implemented">>))>>,
            c |-> <<>>]
      [] OTHER ->
           [w |-> <<sendResponse("InvalidParameter",
                       Body("InvalidParameter",
                            <<"Invalid action \"", a, "\"">>))>>,
            c |-> <<>>]

ActionMissing ==
    [w |-> <<sendResponse("InvalidParameter",
                Body("InvalidParameter", <<"action parameter not specified">>))>>,
     c |-> <<>>]

\* Variant: the last value of a repeated action parameter is used
ResolveAction_Last(params, fpath) ==
    IF Len(params) > 0
    THEN ResolveValue(params[Len(params)], fpath)
    ELSE ActionMissing

\* doHandlePostImages, lines 219-263
ResolveAction(params, fpath) ==
    IF Len(params) > 0
    THEN ResolveValue(params[1], fpath)
    ELSE ActionMissing

PostImages(p, st, params) ==
    IF p = Images
    THEN Out(<<>>, <<Call("CreateImage", Datadir)>>, NoSplit, "none", <<>>)
    ELSE LET s == splitImagesUrl(p)
             fpath == Filename(s.uuid)
         IN  IF s.err
             THEN Out(<<sendResponse("InvalidParameter",
                          Body("InvalidParameter", <<"Failed to decode URL">>))>>,
                      <<>>, <<s>>, "none", <<>>)
             ELSE IF st = "notexist"
             THEN Out(<<sendResponse("ResourceNotFound",
                          Body("ResourceNotFound", <<"Failed to locate resource">>))>>,
                      <<>>, <<s>>, st, <<>>)
             ELSE IF st # "ok"
             THEN Out(<<sendResponse("InternalError",
                          Body("InternalError",
                               <<"Failed to locate resource ", "stat error">>))>>,
                      <<>>, <<s>>, st, <<>>)
             ELSE IF s.file = Icon
             THEN Out(<<>>, <<Call("AddImageIcon", fpath)>>, <<s>>, st, <<>>)
             ELSE IF s.file = Acl
             THEN Out(<<sendResponse("InsufficientServerVersion",
                          Body("InsufficientServerVersion",
                               <<"acl is not implemented">>))>>,
                      <<>>, <<s>>, st, <<>>)
             ELSE IF s.file = <<>>
             THEN LET r == ResolveAction(params, fpath)
                  IN  [Out(r.w, r.c, <<s>>, st, params) EXCEPT !.readsAction = TRUE]
             ELSE Out(<<sendResponse("ResourceNotFound",
                          Body("ResourceNotFound", <<"Invalid URL specified">>))>>,
                      <<>>, <<s>>, st, <<>>)

\* Variant: any subresource tag is accepted
PutImages_AnyTag(p) ==
    LET s == splitImagesUrl(p)
    IN  IF s.err
        THEN Out(<<sendResponse("InvalidParameter",
                     Body("InvalidParameter", <<"Failed to decode URL">>))>>,
                 <<>>, <<s>>, "none", <<>>)
        ELSE Out(<<>>, <<Call("AddImageFile", Filename(s.uuid))>>, <<s>>, "none", <<>>)

PutImages(p) ==
    LET s == splitImagesUrl(p)
    IN  IF s.err \/ s.file # File
        THEN Out(<<sendResponse("InvalidParameter",
                     Body("InvalidParameter", <<"Failed to decode URL">>))>>,
                 <<>>, <<s>>, "none", <<>>)
        ELSE Out(<<>>, <<Call("AddImageFile", Filename(s.uuid))>>, <<s>>, "none", <<>>)

\* The inputs a routine draws: os.Stat returns a result only where the
\* routine calls it, and params["action"] has a value only where it is read.
StatRead(o) == IF o.stat = "none" THEN {"none"} ELSE StatResults

ActionRead(o) == IF o.readsAction THEN ActionParams ELSE {<<>>}

\* The routine named r has run on path p with outcome o
Finish(r, p, o) ==
    /\ pc' = "done"
    /\ route' = r
    /\ path' = p
    /\ split' = o.split
    /\ statRes' = o.stat
    /\ action' = o.act
    /\ writes' = writes \o o.w
    /\ calls' = calls \o o.c
    /\ UNCHANGED <<userdb, cred, authenticated, queryBad, method>>

doHandleGetImages ==
    /\ pc = "get"
    /\ \E p \in Paths :
         \E st \in StatRead(GetImages(p, "ok")) :
             Finish("get", p, GetImages(p, st))

doHandleDeleteImages ==
    /\ pc = "delete"
    /\ \E p \in Paths : Finish("delete", p, DeleteImages(p))

doHandlePostImages ==
    /\ pc = "post"
    /\ \E p \in Paths :
         \E st \in StatRead(PostImages(p, "ok", <<>>)) :
             \E params \in ActionRead(PostImages(p, st, <<>>)) :
                 Finish("post", p, PostImages(p, st, params))

doHandlePutImages ==
    /\ pc = "put"
    /\ \E p \in Paths : Finish("put", p, PutImages(p))

Next ==
    \/ Receive
    \/ Authenticate
    \/ ParseQuery
    \/ DispatchMethod
    \/ doHandleGetImages
    \/ doHandleDeleteImages
    \/ doHandlePostImages
    \/ doHandlePutImages
    \/ Return

Spec == Init /\ [][Next]_vars

----------------------------------------------------------------------------
(* splitImagesUrl on its own, applied to any string *)

InitSplit ==
    /\ userdb = <<>>
    /\ pc = "split"
    /\ cred = NoCredentials
    /\ authenticated = FALSE
    /\ queryBad = FALSE
    /\ method = ""
    /\ route = "none"
    /\ path \in Urls
    /\ split = NoSplit
    /\ statRes = "none"
    /\ action = <<>>
    /\ writes = <<>>
    /\ calls = <<>>

CallSplit ==
    /\ pc = "split"
    /\ split' = <<splitImagesUrl(path)>>
    /\ pc' = "splitdone"
    /\ UNCHANGED <<userdb, cred, authenticated, queryBad, method, route, path,
                   statRes, action, writes, calls>>

NextUrl ==
    /\ pc = "splitdone"
    /\ pc' = "split"
    /\ path' \in Urls
    /\ split' = NoSplit
    /\ UNCHANGED <<userdb, cred, authenticated, queryBad, method, route,
                   statRes, action, writes, calls>>

NextSplit == CallSplit \/ NextUrl

SpecSplit == InitSplit /\ [][NextSplit]_vars

----------------------------------------------------------------------------
(* Properties *)

Mutating == {"DELETE", "POST", "PUT"}

Implemented == {"activate", "update", "disable", "enable"}

Unimplemented == {"export", "copy-remote", "import-remote", "import",
                  "channel-add"}

OperationOf(a) ==
    CASE a = "activate" -> "ActivateImage"
      [] a = "update" -> "UpdateImage"
      [] a = "disable" -> "DisableImage"
      [] a = "enable" -> "EnableImage"

Contains(message, v) == \E i \in 1..Len(message) : message[i] = v

\* The core wrote one structured error with this code and called no handler
OnlyError(code) ==
    /\ calls = <<>>
    /\ Len(writes) = 1
    /\ writes[1].status = code
    /\ Len(writes[1].body) = 1
    /\ writes[1].body[1].code = code

\* The core called this one handler with this argument and wrote nothing
OnlyCall(name, arg) ==
    /\ writes = <<>>
    /\ calls = <<Call(name, arg)>>

\* The request passed the authentication scan and the query parse
Dispatched == pc = "done" /\ (~cred.ok \/ authenticated) /\ ~queryBad

NameHits == {i \in 1..Len(userdb) : userdb[i].Name = cred.username}

FirstHit == CHOOSE i \in NameHits : \A j \in NameHits : i <= j

\* C1 as stated: an anonymous DELETE, POST or PUT, whatever its path and its
\* query string, gets the bare UnauthorizedError status and no body, and no
\* operation handler is called.
C1_AnyQuery ==
    (pc = "done" /\ ~cred.ok /\ method \in Mutating)
        => (writes = <<WriteHeader("UnauthorizedError")>> /\ calls = <<>>)

\* C1 amended: an anonymous DELETE, POST or PUT whose query string parses
\* gets the bare UnauthorizedError status and no body; one whose query
\* string does not parse gets the InternalError response; no operation
\* handler is called either way.
C1_AnonymousMutation ==
    (pc = "done" /\ ~cred.ok /\ method \in Mutating)
        => /\ calls = <<>>
           /\ route = "none"
           /\ IF queryBad
              THEN OnlyError("InternalError")
              ELSE writes = <<WriteHeader("UnauthorizedError")>>

C1_Witness ==
    /\ pc = "done"
    /\ ~cred.ok
    /\ method = "POST"
    /\ ~queryBad
    /\ writes = <<WriteHeader("UnauthorizedError")>>

\* C2: the first entry of the user list whose name equals the supplied user
\* name decides alone: the request is authenticated exactly when the
\* password equals that entry's password (so a/1 passes [{a,1},{a,2}]).
C2_FirstMatch ==
    (pc \notin {"idle", "auth"} /\ cred.ok /\ NameHits # {})
        => (authenticated <=> cred.password = userdb[FirstHit].Password)

\* C3: a request with Basic credentials, whatever its method, whose user
\* name is in no entry gets AccountDoesNotExist, and one whose user name is
\* in the list with a wrong password gets UnauthorizedError; that is the one
\* response written and no routine or operation handler runs.
C3_Rejected ==
    (pc \notin {"idle", "auth"} /\ cred.ok)
        => /\ NameHits = {}
                => (pc = "done" /\ route = "none"
                        /\ OnlyError("AccountDoesNotExist"))
           /\ (NameHits # {} /\ cred.password # userdb[FirstHit].Password)
                => (pc = "done" /\ route = "none"
                        /\ OnlyError("UnauthorizedError"))

C3_Witness ==
    /\ pc = "done"
    /\ cred.ok
    /\ method = "GET"
    /\ userdb # <<>>
    /\ NameHits = {}
    /\ OnlyError("AccountDoesNotExist")

\* The request is an authenticated POST to /images/{uuid} without
\* subresource whose path exists: the action parameter was read.
ActionResolved ==
    /\ pc = "done"
    /\ method = "POST"
    /\ authenticated
    /\ route = "post"
    /\ split # NoSplit
    /\ ~split[1].err
    /\ split[1].file = <<>>
    /\ statRes = "ok"

\* C4: on such a POST each of export, copy-remote, import-remote, import and
\* channel-add as first action value gets InsufficientServerVersion with the
\* action name in the message, and no operation handler is called.
C4_Unimplemented ==
    (ActionResolved /\ action # <<>> /\ action[1] \in Unimplemented)
        => /\ OnlyError("InsufficientServerVersion")
           /\ Contains(writes[1].body[1].message, action[1])

\* C5: every handled request ends with exactly one outcome: one operation
\* handler called and nothing written by the core, or one response written
\* by the core and no handler called.
C5_OneOutcome ==
    pc = "done"
        => \/ (Len(calls) = 1 /\ writes = <<>>)
           \/ (calls = <<>> /\ Len(writes) = 1)

\* C6: whenever splitImagesUrl returns no error, the uuid it returns is not
\* empty.
C6_UuidNonEmpty ==
    (split # NoSplit /\ ~split[1].err) => split[1].uuid # <<>>

\* C7: on an authenticated POST to /images/{uuid} without subresource whose
\* path exists, the first action value decides: activate, update, disable
\* and enable call the operation of that name once and nothing else; no
\* action parameter gets InvalidParameter; a value that is none of the nine
\* names gets InvalidParameter with the value in the message.
C7_ActionTable ==
    ActionResolved
        => /\ action = <<>>
                => /\ OnlyError("InvalidParameter")
                   /\ writes[1].body[1].message
                        = <<"action parameter not specified">>
           /\ (action # <<>> /\ action[1] \in Implemented)
                => OnlyCall(OperationOf(action[1]), Filename(split[1].uuid))
           /\ (action # <<>> /\ action[1] \notin Implemented \cup Unimplemented)
                => /\ OnlyError("InvalidParameter")
                   /\ Contains(writes[1].body[1].message, action[1])

C7_Witness ==
    /\ ActionResolved
    /\ action = <<"activate", "bogus">>
    /\ OnlyCall("ActivateImage", Filename(split[1].uuid))

C9_ServerHeader ==
    \A i \in 1..Len(writes) : "Server" \in writes[i].headers

\* C10: an authenticated PUT is routed by doHandlePutImages, which calls
\* AddImageFile once with {datadir}/{uuid} exactly when the path parses and
\* its tag is /file; every other path gets InvalidParameter and no handler;
\* os.Stat is not called.
C10_PutRouting ==
    (Dispatched /\ method = "PUT" /\ authenticated)
        => /\ route = "put"
           /\ statRes = "none"
           /\ split # NoSplit
           /\ IF ~split[1].err /\ split[1].file = File
              THEN OnlyCall("AddImageFile", Filename(split[1].uuid))
              ELSE OnlyError("InvalidParameter")

C10_Witness ==
    /\ Dispatched
    /\ method = "PUT"
    /\ authenticated
    /\ path = Images \o <<"/", "u">> \o File
    /\ OnlyCall("AddImageFile", Datadir \o <<"/", "u">>)

====
